---- MODULE Spec2Model ----
(***************************************************************************)
(* DAMON primitives for the physical address space (mm/damon/paddr.c):     *)
(* the generation-stamped round cache, the prepare/check access passes,    *)
(* the pageout scheme executor and the scheme score hook.                  *)
(***************************************************************************)
EXTENDS Integers, Sequences, FiniteSets, TLC

VARIABLES
    damon_pa_cache,      \* the written slots of the static table (others are zero)
    damon_pa_cache_gen,  \* the generation counter
    regions,             \* the regions of the context, in visiting order
    frames,              \* per page: accessed bit of its mapping and idle flag
    pc,                  \* position of the monitoring thread
    idx,                 \* region the running pass visits next
    round,               \* number of prepare_access_checks calls so far
    lay,                 \* the layout (regions, frames touched) of this run
    max_nr_accesses,     \* local of damon_pa_check_accesses
    last,                \* what the last step did (observation)
    mkold_calls,         \* damon_pa_mkold calls per frame in this round
    young_calls,         \* damon_pa_young calls per frame in this check pass
    stamped,             \* slots written since the last round began
    evicted,             \* live entries overwritten by another frame's claim, per frame, in this round
    ref_frames,          \* page state of the reference run without a cache
    ref_nr,              \* nr_accesses of the reference run without a cache
    scan,                \* the running or last damon_pa_apply_scheme call
    two                  \* two monitoring contexts that use the one cache

vars == <<damon_pa_cache, damon_pa_cache_gen, regions, frames, pc, idx, round,
          lay, max_nr_accesses, last, mkold_calls, young_calls, stamped,
          evicted, ref_frames, ref_nr, scan, two>>

----------------------------------------------------------------------------
(* Bounds of the model *)

\* rounds (prepare_access_checks calls) of one run
MaxRounds == 4
\* width in bits of the generation counter (unsigned long, scaled down)
GenBits == 2
\* width in bits of a physical address (unsigned long, scaled down)
AddrBits == 24
\* loop iterations of one damon_pa_apply_scheme call the model follows
MaxScanSteps == 6
\* the number of frame visits after which a periodic yield would be due
YieldPeriod == 2
\* rounds of each of two monitoring contexts that run side by side
MaxCtxRounds == 2

----------------------------------------------------------------------------
(* Constants of the program and of its platform *)

DAMON_PA_CACHE_BITS == 8
DAMON_PA_CACHE_SIZE == 2 ^ DAMON_PA_CACHE_BITS
DAMON_PA_CACHE_PROBES == 4
PAGE_SHIFT == 12
PAGE_SIZE == 2 ^ PAGE_SHIFT
HPAGE_PMD_SHIFT == 21
HPAGE_PMD_SIZE == 2 ^ HPAGE_PMD_SHIFT
HPAGE_PMD_NR == 2 ^ (HPAGE_PMD_SHIFT - PAGE_SHIFT)
DAMOS_MAX_SCORE == 99
\* GOLDEN_RATIO_64 = 0x61C8864680B583EB in 16-bit limbs, lowest first
GOLDEN_RATIO_64 == <<33771, 32949, 34374, 25032>>
Limb == 2 ^ 16
GenMod == 2 ^ GenBits
AddrMod == 2 ^ AddrBits

NoSlot == -1
ZeroEnt == [gen |-> 0, pfn |-> 0, page_sz |-> 0, accessed |-> FALSE,
            mkold_done |-> FALSE]

PHYS_PFN(paddr) == paddr \div PAGE_SIZE

\* hash_long(pfn, bits): the top bits of pfn * GOLDEN_RATIO_64 modulo 2^64
hash_long(pfn, bits) ==
    LET c0 == pfn * GOLDEN_RATIO_64[1]
        c1 == pfn * GOLDEN_RATIO_64[2] + (c0 \div Limb)
        c2 == pfn * GOLDEN_RATIO_64[3] + (c1 \div Limb)
        c3 == (pfn * GOLDEN_RATIO_64[4] + (c2 \div Limb)) % Limb
    IN  c3 \div (2 ^ (16 - bits))

\* max() that keeps its first argument
MaxKeepsFirst(a, b) == a

Max(a, b) == IF a >= b THEN a ELSE b

----------------------------------------------------------------------------
(* The pages of the machine *)

\* the head frame of the transparent huge page of the model
ThpBase == 2 * HPAGE_PMD_NR
\* frames whose state the model tracks (a huge page is tracked at its head)
Frames == {1, 2, 3, 234, 611, 844, 988, ThpBase}

\* "none": damon_get_page() fails; "unmapped": not mapped or no rmapping;
\* "anon": pte-mapped anonymous page; "file": pte-mapped page that needs the
\* page lock; "thp": pmd-mapped transparent huge page
FrameKind(pfn) ==
    CASE pfn \in {1, 234, 611, 844, 988} -> "anon"
      [] pfn = 2 -> "file"
      [] pfn = 3 -> "unmapped"
      [] pfn >= ThpBase /\ pfn < ThpBase + HPAGE_PMD_NR -> "thp"
      [] OTHER -> "none"

FrameKey(pfn) == IF FrameKind(pfn) = "thp" THEN ThpBase ELSE pfn

NeedLock(pfn) == FrameKind(pfn) = "file"

----------------------------------------------------------------------------
(* The round cache *)

CacheEnt(c, i) == IF i \in DOMAIN c THEN c[i] ELSE ZeroEnt

CacheSlot(pfn, i) == (hash_long(pfn, DAMON_PA_CACHE_BITS) + i) % DAMON_PA_CACHE_SIZE

\* the slot of the first live entry of pfn in its probe window, or NoSlot
damon_pa_cache_lookup(c, g, pfn) ==
    LET hits == {i \in 0 .. DAMON_PA_CACHE_PROBES - 1 :
                    /\ CacheEnt(c, CacheSlot(pfn, i)).gen = g
                    /\ CacheEnt(c, CacheSlot(pfn, i)).pfn = pfn}
    IN  IF hits = {} THEN NoSlot
        ELSE CacheSlot(pfn, CHOOSE i \in hits : \A j \in hits : i <= j)

\* a slot claim that overwrites the last slot of a window without stale slot
damon_pa_cache_get_slot_last(c, g, pfn) ==
    LET stale == {i \in 0 .. DAMON_PA_CACHE_PROBES - 1 :
                    CacheEnt(c, CacheSlot(pfn, i)).gen # g}
    IN  IF stale = {} THEN CacheSlot(pfn, DAMON_PA_CACHE_PROBES - 1)
        ELSE CacheSlot(pfn, CHOOSE i \in stale : \A j \in stale : i <= j)

\* the first stale slot of the probe window of pfn, else the window's first slot
damon_pa_cache_get_slot(c, g, pfn) ==
    LET stale == {i \in 0 .. DAMON_PA_CACHE_PROBES - 1 :
                    CacheEnt(c, CacheSlot(pfn, i)).gen # g}
    IN  IF stale = {} THEN CacheSlot(pfn, 0)
        ELSE CacheSlot(pfn, CHOOSE i \in stale : \A j \in stale : i <= j)

\* a round begin without the test for zero
damon_pa_cache_round_begin_keeps_zero(g) == (g + 1) % GenMod

damon_pa_cache_round_begin(g) ==
    IF (g + 1) % GenMod = 0 THEN 1 ELSE (g + 1) % GenMod

CacheStore(c, slot, ent) ==
    [j \in DOMAIN c \cup {slot} |-> IF j = slot THEN ent ELSE c[j]]

----------------------------------------------------------------------------
(* The frame access oracle: damon_pa_mkold and damon_pa_young *)

\* damon_ptep_mkold / damon_pmdp_mkold: clear the accessed bit, set idle
damon_ptep_mkold(st) == [young |-> FALSE, idle |-> TRUE]

\* the rmap walk of __damon_pa_mkold over the one mapping of the page
damon_pa_mkold_walk(st) == damon_ptep_mkold(st)

\* damon_pa_mkold without the set_page_idle() of the unmapped branch
damon_pa_mkold_no_idle(fs, paddr, contended) ==
    LET pfn == PHYS_PFN(paddr)
        key == FrameKey(pfn)
        kind == FrameKind(pfn)
    IN  IF kind \in {"none", "unmapped"} THEN fs
        ELSE IF NeedLock(pfn) /\ contended THEN fs
        ELSE [fs EXCEPT ![key] = [young |-> FALSE, idle |-> TRUE]]

damon_pa_mkold(fs, paddr, contended) ==
    LET pfn == PHYS_PFN(paddr)
        key == FrameKey(pfn)
        kind == FrameKind(pfn)
    IN  IF kind = "none" THEN fs
        ELSE IF kind = "unmapped"
             THEN [fs EXCEPT ![key].idle = TRUE]
        ELSE IF NeedLock(pfn) /\ contended THEN fs
        ELSE [fs EXCEPT ![key] = damon_pa_mkold_walk(fs[key])]

\* the rmap walk of __damon_pa_young over the one mapping of the page
damon_pa_young_walk(st, kind) ==
    [accessed |-> st.young \/ ~st.idle,
     page_sz  |-> IF kind = "thp" THEN HPAGE_PMD_SIZE ELSE PAGE_SIZE]

\* damon_pa_young without the early return for a page that is not found
damon_pa_young_no_null_check(fs, paddr, page_sz, contended) ==
    LET pfn == PHYS_PFN(paddr)
        key == FrameKey(pfn)
        kind == FrameKind(pfn)
    IN  IF kind = "none" THEN [accessed |-> TRUE, page_sz |-> page_sz]
        ELSE IF kind = "unmapped"
             THEN [accessed |-> ~fs[key].idle, page_sz |-> PAGE_SIZE]
        ELSE IF NeedLock(pfn) /\ contended
             THEN [accessed |-> FALSE, page_sz |-> PAGE_SIZE]
        ELSE [accessed |-> fs[key].young \/ ~fs[key].idle,
              page_sz  |-> IF kind = "thp" THEN HPAGE_PMD_SIZE ELSE PAGE_SIZE]

\* damon_pa_young waiting for the page lock instead of trying it
damon_pa_young_lock_page(fs, paddr, page_sz, contended) ==
    LET pfn == PHYS_PFN(paddr)
        key == FrameKey(pfn)
        kind == FrameKind(pfn)
    IN  IF kind = "none" THEN [accessed |-> FALSE, page_sz |-> page_sz]
        ELSE IF kind = "unmapped"
             THEN [accessed |-> ~fs[key].idle, page_sz |-> PAGE_SIZE]
        ELSE damon_pa_young_walk(fs[key], kind)

\* the returned value and *page_sz (page_sz is the caller's initial value)
damon_pa_young(fs, paddr, page_sz, contended) ==
    LET pfn == PHYS_PFN(paddr)
        key == FrameKey(pfn)
        kind == FrameKind(pfn)
    IN  IF kind = "none" THEN [accessed |-> FALSE, page_sz |-> page_sz]
        ELSE IF kind = "unmapped"
             THEN [accessed |-> ~fs[key].idle, page_sz |-> PAGE_SIZE]
        ELSE IF NeedLock(pfn) /\ contended
             THEN [accessed |-> FALSE, page_sz |-> PAGE_SIZE]
        ELSE damon_pa_young_walk(fs[key], kind)

\* references of damon_get_page() that damon_pa_mkold still holds when it
\* returns: none is taken for a page that is not found, every other path
\* ends in put_page()
damon_pa_mkold_refs(paddr, contended) ==
    LET pfn == PHYS_PFN(paddr)
        kind == FrameKind(pfn)
    IN  IF kind = "none" THEN 0
        ELSE IF kind = "unmapped" THEN 1 - 1
        ELSE IF NeedLock(pfn) /\ contended THEN 1 - 1
        ELSE 1 - 1

\* references of damon_get_page() that damon_pa_young still holds when it
\* returns
damon_pa_young_refs(paddr, contended) ==
    LET pfn == PHYS_PFN(paddr)
        kind == FrameKind(pfn)
    IN  IF kind = "none" THEN 0
        ELSE IF kind = "unmapped" THEN 1 - 1
        ELSE IF NeedLock(pfn) /\ contended THEN 1 - 1
        ELSE 1 - 1

----------------------------------------------------------------------------
(* Layouts: the regions a run monitors, the pages the workload touches and
   the actions of the schemes installed *)

SchemeActions == {"DAMOS_PAGEOUT", "DAMOS_STAT"}

\* the offsets into a page that damon_rand() is taken to yield
SampleOffsets == {PAGE_SIZE - 1}

Reg(t, first, n) == [t |-> t, start |-> first * PAGE_SIZE,
                     end |-> (first + n) * PAGE_SIZE]

LayoutOf(name) ==
    CASE name = "pair" ->
           [regs |-> <<Reg(1, 1, 1), Reg(2, 1, 2)>>, touch |-> {1, 2},
            rounds |-> MaxRounds, schemes |-> {}]
      [] name = "holes" ->
           [regs |-> <<Reg(1, 3, 2), Reg(2, 3, 1)>>, touch |-> {3},
            rounds |-> 2, schemes |-> SchemeActions]
      [] name = "empty" ->
           [regs |-> <<>>, touch |-> {}, rounds |-> MaxRounds,
            schemes |-> SchemeActions]
      [] name = "collide" ->
           [regs |-> <<Reg(1, 1, 1), Reg(1, 234, 1), Reg(1, 611, 1),
                       Reg(1, 844, 1), Reg(1, 988, 1), Reg(2, 1, 1),
                       Reg(3, 1, 1)>>,
            touch |-> {1, 988}, rounds |-> 2, schemes |-> SchemeActions]
      [] name = "huge" ->
           [regs |-> <<Reg(1, ThpBase + 1, 1), Reg(1, ThpBase + 2, 1),
                       Reg(2, ThpBase, 1)>>,
            touch |-> {ThpBase}, rounds |-> 2, schemes |-> SchemeActions]
      [] name = "scan" ->
           [regs |-> <<Reg(1, 1, 3),
                       [t |-> 1, start |-> AddrMod - 2 * PAGE_SIZE,
                        end |-> AddrMod - 1]>>,
            touch |-> {1}, rounds |-> 1, schemes |-> SchemeActions]

NewRegion(r) == [t |-> r.t, start |-> r.start, end |-> r.end,
                 sampling_addr |-> 0, nr_accesses |-> 0]

\* damon_rand(start, end): an address of [start, end)
damon_rand(start, end) ==
    {a \in {p * PAGE_SIZE + o : p \in PHYS_PFN(start) .. PHYS_PFN(end - 1),
                                o \in SampleOffsets} : a >= start /\ a < end}

NoOp == [op |-> "none", r |-> 0, pfn |-> 0, accessed |-> FALSE,
         oracle |-> FALSE, hit |-> FALSE, val |-> 0, contended |-> FALSE,
         page_sz |-> 0, held |-> 0, action |-> "", ext |-> 0]

\* no damon_pa_apply_scheme call so far
NoScan == [r |-> 0, addr |-> 0, steps |-> 0, visits |-> << >>,
           page_list |-> {}, failed |-> {}, held |-> 0, gets |-> 0, clears |-> 0,
           isolates |-> 0, reclaims |-> 0, reclaimed |-> 0, yields |-> 0,
           since_yield |-> 0]

\* the monitoring contexts of a run of two
Contexts == {1, 2}

\* the state of a monitoring context that has cache and generation to
\* itself and sees the same pages
AloneOf(regs, fs) == [cache |-> << >>, gen |-> 0, frames |-> fs,
                      nr |-> [i \in 1 .. Len(regs) |-> 0]]

\* two contexts with the regions regs[c], before their first round
TwoOf(regs, fs) ==
    [pc |-> [c \in Contexts |-> "idle"],
     idx |-> [c \in Contexts |-> 0],
     rounds |-> [c \in Contexts |-> 0],
     regs |-> [c \in Contexts |->
                 [i \in 1 .. Len(regs[c]) |-> NewRegion(regs[c][i])]],
     alone |-> [c \in Contexts |-> AloneOf(regs[c], fs)],
     last |-> [ctx |-> 0, op |-> "none", r |-> 0, oracle |-> FALSE,
               alone_oracle |-> FALSE]]

\* the regions of the two contexts: the first samples frame 1 from two
\* regions, the second another frame
TwoRegs == [c \in Contexts |-> IF c = 1 THEN <<Reg(1, 1, 1), Reg(2, 1, 1)>>
                               ELSE <<Reg(1, 234, 1)>>]

\* no second context
NoTwo == [c \in Contexts |-> << >>]

ZeroCount == << >>
Count(m, f) == IF f \in DOMAIN m THEN m[f] ELSE 0
Bump(m, f) == [g \in DOMAIN m \cup {f} |-> IF g = f THEN Count(m, f) + 1 ELSE m[g]]

InitBase(name) ==
    /\ lay = name
    /\ damon_pa_cache = << >>
    /\ damon_pa_cache_gen = 0
    /\ regions = [i \in 1 .. Len(LayoutOf(name).regs) |->
                    NewRegion(LayoutOf(name).regs[i])]
    /\ frames = [f \in Frames |-> [young |-> FALSE, idle |-> FALSE]]
    /\ pc = "idle"
    /\ idx = 0
    /\ round = 0
    /\ max_nr_accesses = 0
    /\ last = NoOp
    /\ mkold_calls = ZeroCount
    /\ young_calls = ZeroCount
    /\ stamped = {}
    /\ evicted = ZeroCount
    /\ ref_frames = frames
    /\ ref_nr = [i \in 1 .. Len(LayoutOf(name).regs) |-> 0]
    /\ scan = NoScan

InitOf(name) ==
    /\ InitBase(name)
    /\ two = TwoOf(NoTwo, frames)

Init == \E name \in {"pair", "holes", "empty"} : InitOf(name)

----------------------------------------------------------------------------
(* The access check engine *)

Stamp(g, pfn, page_sz, accessed) ==
    [gen |-> g, pfn |-> pfn, page_sz |-> page_sz, accessed |-> accessed,
     mkold_done |-> TRUE]

\* whether claiming `slot` for a new entry overwrites a live entry
Overwrites(c, g, slot) == CacheEnt(c, slot).gen = g /\ g # 0

\* a prepare step that never takes the early return
PrepareNeverSkips(c, g, pfn) == FALSE

\* whether __damon_pa_prepare_access_check returns before damon_pa_mkold
PrepareSkips(c, g, pfn) ==
    LET e == damon_pa_cache_lookup(c, g, pfn)
    IN  e # NoSlot /\ CacheEnt(c, e).mkold_done

\* whether __damon_pa_check_access takes its fast path
CheckReuses(c, g, pfn) ==
    LET e == damon_pa_cache_lookup(c, g, pfn)
    IN  e # NoSlot /\ CacheEnt(c, e).page_sz # 0

\* the cache after __damon_pa_check_access stored the result of damon_pa_young
CheckStores(c, g, pfn, res) ==
    LET c1 == CacheStore(c, damon_pa_cache_get_slot(c, g, pfn),
                         Stamp(g, pfn, res.page_sz, res.accessed))
        npages == res.page_sz \div PAGE_SIZE
        base_pfn == pfn - (pfn % npages)
    IN  IF res.page_sz > PAGE_SIZE
        THEN CacheStore(c1, damon_pa_cache_get_slot(c1, g, base_pfn),
                        Stamp(g, base_pfn, res.page_sz, res.accessed))
        ELSE c1

\* the slots CheckStores writes
CheckSlots(c, g, pfn, res) ==
    LET s1 == damon_pa_cache_get_slot(c, g, pfn)
        c1 == CacheStore(c, s1, Stamp(g, pfn, res.page_sz, res.accessed))
        npages == res.page_sz \div PAGE_SIZE
        base_pfn == pfn - (pfn % npages)
    IN  IF res.page_sz > PAGE_SIZE
        THEN {s1, damon_pa_cache_get_slot(c1, g, base_pfn)}
        ELSE {s1}

\* a counter that is reset when the sample was not accessed
CountAccessResets(nr, accessed) == IF accessed THEN nr + 1 ELSE 0

\* r->nr_accesses after __damon_pa_check_access judged the sample
CountAccess(nr, accessed) == IF accessed THEN nr + 1 ELSE nr

\* damon_pa_prepare_access_checks: the round begins
PrepareBegin ==
    /\ pc = "idle"
    /\ round < LayoutOf(lay).rounds
    /\ round' = round + 1
    /\ damon_pa_cache_gen' = damon_pa_cache_round_begin(damon_pa_cache_gen)
    /\ pc' = IF Len(regions) = 0 THEN "prepared" ELSE "prepare"
    /\ idx' = 1
    /\ mkold_calls' = ZeroCount
    /\ young_calls' = ZeroCount
    /\ evicted' = ZeroCount
    /\ stamped' = {}
    /\ last' = [NoOp EXCEPT !.op = "begin"]
    /\ UNCHANGED <<two, damon_pa_cache, regions, frames, lay, max_nr_accesses,
                   ref_frames, ref_nr, scan>>

\* __damon_pa_prepare_access_check on the region at idx
PrepareStep ==
    /\ pc = "prepare"
    /\ \E addr \in damon_rand(regions[idx].start, regions[idx].end),
          contended \in BOOLEAN :
        LET pfn == PHYS_PFN(addr)
            skip == PrepareSkips(damon_pa_cache, damon_pa_cache_gen, pfn)
            slot == damon_pa_cache_get_slot(damon_pa_cache,
                                            damon_pa_cache_gen, pfn)
            old == CacheEnt(damon_pa_cache, slot)
        IN  /\ contended => NeedLock(pfn)
            /\ regions' = [regions EXCEPT ![idx].sampling_addr = addr]
            /\ IF skip
               THEN UNCHANGED <<damon_pa_cache, frames, mkold_calls, stamped,
                                evicted>>
               ELSE /\ frames' = damon_pa_mkold(frames, addr, contended)
                    /\ damon_pa_cache' = CacheStore(damon_pa_cache, slot,
                          Stamp(damon_pa_cache_gen, pfn, 0, FALSE))
                    /\ mkold_calls' = Bump(mkold_calls, pfn)
                    /\ stamped' = stamped \cup {slot}
                    /\ evicted' = IF /\ Overwrites(damon_pa_cache,
                                                   damon_pa_cache_gen, slot)
                                     /\ old.pfn # pfn
                                  THEN Bump(evicted, old.pfn) ELSE evicted
            /\ ref_frames' = damon_pa_mkold(ref_frames, addr, contended)
            /\ last' = [NoOp EXCEPT !.op = "prepare", !.r = idx, !.pfn = pfn,
                                    !.oracle = ~skip,
                                    !.contended = ~skip /\ contended,
                                    !.held = IF skip THEN 0
                                             ELSE damon_pa_mkold_refs(addr,
                                                                 contended)]
    /\ pc' = IF idx = Len(regions) THEN "prepared" ELSE "prepare"
    /\ idx' = idx + 1
    /\ UNCHANGED <<two, damon_pa_cache_gen, round, lay, max_nr_accesses,
                   young_calls, ref_nr, scan>>

\* damon_pa_check_accesses is called
CheckBegin ==
    /\ pc = "prepared"
    /\ max_nr_accesses' = 0
    /\ idx' = 1
    /\ young_calls' = ZeroCount
    /\ pc' = IF Len(regions) = 0 THEN "idle" ELSE "check"
    /\ last' = [NoOp EXCEPT !.op = IF Len(regions) = 0 THEN "checked"
                                   ELSE "checking"]
    /\ UNCHANGED <<two, damon_pa_cache, damon_pa_cache_gen, regions, frames, round,
                   lay, mkold_calls, stamped, evicted, ref_frames, ref_nr,
                   scan>>

\* __damon_pa_check_access on the region at idx, and the max of the caller
CheckStep ==
    /\ pc = "check"
    /\ \E contended \in BOOLEAN :
        LET r == regions[idx]
            pfn == PHYS_PFN(r.sampling_addr)
            reuse == CheckReuses(damon_pa_cache, damon_pa_cache_gen, pfn)
            e == damon_pa_cache_lookup(damon_pa_cache, damon_pa_cache_gen, pfn)
            res == damon_pa_young(frames, r.sampling_addr, PAGE_SIZE, contended)
            accessed == IF reuse THEN CacheEnt(damon_pa_cache, e).accessed
                        ELSE res.accessed
            nr == CountAccess(r.nr_accesses, accessed)
            ref == damon_pa_young(ref_frames, r.sampling_addr, PAGE_SIZE,
                                  contended)
            m == Max(nr, max_nr_accesses)
        IN  /\ contended => NeedLock(pfn)
            /\ IF reuse
               THEN UNCHANGED <<damon_pa_cache, young_calls, stamped>>
               ELSE /\ damon_pa_cache' = CheckStores(damon_pa_cache,
                                            damon_pa_cache_gen, pfn, res)
                    /\ young_calls' = Bump(young_calls, pfn)
                    /\ stamped' = stamped \cup CheckSlots(damon_pa_cache,
                                            damon_pa_cache_gen, pfn, res)
            /\ regions' = [regions EXCEPT ![idx].nr_accesses = nr]
            /\ ref_nr' = [ref_nr EXCEPT ![idx] = CountAccess(@, ref.accessed)]
            /\ max_nr_accesses' = m
            /\ last' = [NoOp EXCEPT
                          !.op = IF idx = Len(regions) THEN "checked"
                                 ELSE "check",
                          !.r = idx, !.pfn = pfn, !.accessed = accessed,
                          !.oracle = ~reuse, !.hit = reuse, !.val = m,
                          !.contended = ~reuse /\ contended,
                          !.page_sz = IF reuse
                                      THEN CacheEnt(damon_pa_cache, e).page_sz
                                      ELSE res.page_sz,
                          !.held = IF reuse THEN 0
                                   ELSE damon_pa_young_refs(r.sampling_addr,
                                                            contended)]
    /\ pc' = IF idx = Len(regions) THEN "idle" ELSE "check"
    /\ idx' = idx + 1
    /\ UNCHANGED <<two, damon_pa_cache_gen, frames, round, lay, mkold_calls,
                   evicted, ref_frames, scan>>

\* the workload touches a page: the accessed bit of a mapped page is set, the
\* idle flag of an unmapped page is cleared (a touch between two rounds is
\* the same as one right after the next round began)
Touch ==
    /\ pc # "idle"
    /\ \E f \in LayoutOf(lay).touch :
        LET st == IF FrameKind(f) = "unmapped"
                  THEN [young |-> FALSE, idle |-> FALSE]
                  ELSE [young |-> TRUE, idle |-> frames[f].idle]
        IN  /\ frames[f] # st
            /\ frames' = [frames EXCEPT ![f] = st]
            /\ ref_frames' = [ref_frames EXCEPT ![f] =
                  IF FrameKind(f) = "unmapped"
                  THEN [young |-> FALSE, idle |-> FALSE]
                  ELSE [young |-> TRUE, idle |-> ref_frames[f].idle]]
    /\ UNCHANGED <<two, damon_pa_cache, damon_pa_cache_gen, regions, pc, idx,
                   round, lay, max_nr_accesses, last, mkold_calls,
                   young_calls, stamped, evicted, ref_nr, scan>>

----------------------------------------------------------------------------
(* The reclaim executor and the scoring hook *)

\* the frames the scan of damon_pa_apply_scheme visits: start, start + PAGE_SIZE, ...
ScanPfns(r) == {PHYS_PFN(a) : a \in {r.start + k * PAGE_SIZE :
                   k \in 0 .. ((r.end - r.start + PAGE_SIZE - 1) \div PAGE_SIZE) - 1}}

\* damon_get_page(): the page of an online frame that is on an LRU list; a
\* page isolated by this call is off the LRU lists
damon_get_page(pfn, page_list) == FrameKind(pfn) # "none" /\ pfn \notin page_list

\* frames whose page another party may take off the LRU list before
\* isolate_lru_page() does
BusyFrames == {2}

\* PageUnevictable(): the pages that are mlocked or otherwise unevictable
PageUnevictable(pfn) == pfn = 3

\* a damon_pa_apply_scheme that scans for every action
ApplyScansAlways(action) == TRUE

\* whether damon_pa_apply_scheme goes on to the scan (else it returns 0)
ApplyScans(action) == action = "DAMOS_PAGEOUT"

\* lookup references of damon_get_page() still held when one loop iteration
\* ends: isolate_lru_page() takes a reference of its own, putback_lru_page()
\* drops that one, put_page() drops one
ScanIterationRefs(found, isolate_failed, unevictable) ==
    IF ~found THEN 0
    ELSE IF isolate_failed THEN 1 - 1
    ELSE IF unevictable THEN 1
    ELSE 1 - 1

\* addr += PAGE_SIZE on an unsigned long
ScanAdvance(addr) == (addr + PAGE_SIZE) % AddrMod

\* damon_pa_apply_scheme is called for a region by a scheme of the context
ApplyBegin ==
    /\ pc = "idle"
    /\ \E i \in 1 .. Len(regions), action \in LayoutOf(lay).schemes :
         IF ApplyScans(action)
         THEN /\ pc' = "scan"
              /\ scan' = [NoScan EXCEPT !.r = i, !.addr = regions[i].start]
              /\ last' = [NoOp EXCEPT !.op = "applying", !.r = i,
                                      !.action = action]
         ELSE /\ pc' = "idle"
              /\ scan' = scan
              /\ last' = [NoOp EXCEPT !.op = "apply", !.r = i,
                                      !.action = action, !.val = 0]
    /\ UNCHANGED <<two, damon_pa_cache, damon_pa_cache_gen, regions, frames, idx,
                   round, lay, max_nr_accesses, mkold_calls, young_calls,
                   stamped, evicted, ref_frames, ref_nr>>

\* one iteration of the loop of damon_pa_apply_scheme
ScanStep ==
    /\ pc = "scan"
    /\ scan.addr < regions[scan.r].end
    /\ scan.steps < MaxScanSteps
    /\ \E isolate_failed \in BOOLEAN :
        LET pfn == PHYS_PFN(scan.addr)
            found == damon_get_page(pfn, scan.page_list)
            taken == found /\ ~isolate_failed
            listed == taken /\ ~PageUnevictable(pfn)
        IN  /\ isolate_failed => (found /\ pfn \in BusyFrames)
            /\ scan' = [scan EXCEPT
                 !.addr = ScanAdvance(scan.addr),
                 !.steps = @ + 1,
                 !.since_yield = @ + 1,
                 !.visits = Bump(@, pfn),
                 !.gets = @ + 1,
                 !.clears = IF found THEN @ + 1 ELSE @,
                 !.isolates = IF found THEN @ + 1 ELSE @,
                 !.page_list = IF listed THEN @ \cup {pfn} ELSE @,
                 !.failed = IF found /\ isolate_failed THEN @ \cup {pfn}
                            ELSE @,
                 !.held = @ + ScanIterationRefs(found, isolate_failed,
                                                PageUnevictable(pfn))]
    /\ UNCHANGED <<two, damon_pa_cache, damon_pa_cache_gen, regions, frames, pc,
                   idx, round, lay, max_nr_accesses, last, mkold_calls,
                   young_calls, stamped, evicted, ref_frames, ref_nr>>

\* the record of the call after reclaim_pages() returned applied and
\* cond_resched() was called
ScanReturn(sc, applied) ==
    [sc EXCEPT !.reclaims = @ + 1, !.reclaimed = applied,
               !.yields = @ + 1, !.since_yield = 0]

\* the loop is left: reclaim_pages(), cond_resched() and the return
ScanEnd ==
    /\ pc = "scan"
    /\ scan.addr >= regions[scan.r].end
    /\ \E applied \in 0 .. Cardinality(scan.page_list) :
        /\ scan' = ScanReturn(scan, applied)
        /\ last' = [NoOp EXCEPT !.op = "apply", !.r = scan.r,
                                !.action = last.action,
                                !.val = applied * PAGE_SIZE]
    /\ pc' = "idle"
    /\ UNCHANGED <<two, damon_pa_cache, damon_pa_cache_gen, regions, frames, idx,
                   round, lay, max_nr_accesses, mkold_calls, young_calls,
                   stamped, evicted, ref_frames, ref_nr>>

\* the values damon_pageout_score() is taken to return
PageoutScores == {0, DAMOS_MAX_SCORE \div 2, DAMOS_MAX_SCORE}

\* a score hook that hands every action to damon_pageout_score()
damon_pa_scheme_score_delegates(action, pageout_score) == pageout_score

damon_pa_scheme_score(action, pageout_score) ==
    IF action = "DAMOS_PAGEOUT" THEN pageout_score ELSE DAMOS_MAX_SCORE

SchemeScore ==
    /\ pc = "idle"
    /\ \E i \in 1 .. Len(regions), action \in LayoutOf(lay).schemes,
          pageout_score \in PageoutScores :
          last' = [NoOp EXCEPT !.op = "score", !.action = action,
                     !.ext = pageout_score,
                     !.val = damon_pa_scheme_score(action, pageout_score)]
    /\ UNCHANGED <<two, damon_pa_cache, damon_pa_cache_gen, regions, frames, pc,
                   idx, round, lay, max_nr_accesses, mkold_calls, young_calls,
                   stamped, evicted, ref_frames, ref_nr, scan>>

----------------------------------------------------------------------------
(* Two monitoring contexts: each runs the passes on its own regions from its
   own worker, and both use the one damon_pa_cache and damon_pa_cache_gen.
   For each context the run it would have with a cache of its own is
   followed next to it. *)

\* the variables of the single context, which a run of two leaves alone
ctxvars == <<regions, pc, idx, round, lay, max_nr_accesses, last, mkold_calls,
             young_calls, stamped, evicted, ref_frames, ref_nr, scan>>

\* damon_pa_prepare_access_checks of context c: the round begins
CtxPrepareBegin(c) ==
    /\ two.pc[c] = "idle"
    /\ two.rounds[c] < MaxCtxRounds
    /\ damon_pa_cache_gen' = damon_pa_cache_round_begin(damon_pa_cache_gen)
    /\ two' = [two EXCEPT
                 !.pc[c] = "prepare", !.idx[c] = 1, !.rounds[c] = @ + 1,
                 !.alone[c].gen = damon_pa_cache_round_begin(@),
                 !.last = [ctx |-> c, op |-> "begin", r |-> 0,
                           oracle |-> FALSE, alone_oracle |-> FALSE]]
    /\ UNCHANGED <<damon_pa_cache, frames, ctxvars>>

\* __damon_pa_prepare_access_check of context c on its region at idx
CtxPrepareStep(c) ==
    /\ two.pc[c] = "prepare"
    /\ LET i == two.idx[c]
           r == two.regs[c][i]
           a == two.alone[c]
       IN  \E addr \in damon_rand(r.start, r.end), contended \in BOOLEAN :
            LET pfn == PHYS_PFN(addr)
                skip == PrepareSkips(damon_pa_cache, damon_pa_cache_gen, pfn)
                slot == damon_pa_cache_get_slot(damon_pa_cache,
                                                damon_pa_cache_gen, pfn)
                askip == PrepareSkips(a.cache, a.gen, pfn)
                aslot == damon_pa_cache_get_slot(a.cache, a.gen, pfn)
            IN  /\ contended => NeedLock(pfn)
                /\ frames' = IF skip THEN frames
                             ELSE damon_pa_mkold(frames, addr, contended)
                /\ damon_pa_cache' =
                      IF skip THEN damon_pa_cache
                      ELSE CacheStore(damon_pa_cache, slot,
                              Stamp(damon_pa_cache_gen, pfn, 0, FALSE))
                /\ two' = [two EXCEPT
                      !.regs[c][i].sampling_addr = addr,
                      !.pc[c] = IF i = Len(two.regs[c]) THEN "prepared"
                                ELSE "prepare",
                      !.idx[c] = i + 1,
                      !.alone[c].frames =
                          IF askip THEN @
                          ELSE damon_pa_mkold(@, addr, contended),
                      !.alone[c].cache =
                          IF askip THEN @
                          ELSE CacheStore(@, aslot,
                                          Stamp(a.gen, pfn, 0, FALSE)),
                      !.last = [ctx |-> c, op |-> "prepare", r |-> i,
                                oracle |-> ~skip, alone_oracle |-> ~askip]]
    /\ UNCHANGED <<damon_pa_cache_gen, ctxvars>>

\* damon_pa_check_accesses of context c is called
CtxCheckBegin(c) ==
    /\ two.pc[c] = "prepared"
    /\ two' = [two EXCEPT !.pc[c] = "check", !.idx[c] = 1,
                          !.last = [ctx |-> c, op |-> "checking", r |-> 0,
                                    oracle |-> FALSE, alone_oracle |-> FALSE]]
    /\ UNCHANGED <<damon_pa_cache, damon_pa_cache_gen, frames, ctxvars>>

\* __damon_pa_check_access of context c on its region at idx
CtxCheckStep(c) ==
    /\ two.pc[c] = "check"
    /\ LET i == two.idx[c]
           r == two.regs[c][i]
           a == two.alone[c]
           pfn == PHYS_PFN(r.sampling_addr)
       IN  \E contended \in BOOLEAN :
            LET reuse == CheckReuses(damon_pa_cache, damon_pa_cache_gen, pfn)
                e == damon_pa_cache_lookup(damon_pa_cache,
                                           damon_pa_cache_gen, pfn)
                res == damon_pa_young(frames, r.sampling_addr, PAGE_SIZE,
                                      contended)
                accessed == IF reuse THEN CacheEnt(damon_pa_cache, e).accessed
                            ELSE res.accessed
                areuse == CheckReuses(a.cache, a.gen, pfn)
                ae == damon_pa_cache_lookup(a.cache, a.gen, pfn)
                ares == damon_pa_young(a.frames, r.sampling_addr, PAGE_SIZE,
                                       contended)
                aaccessed == IF areuse THEN CacheEnt(a.cache, ae).accessed
                             ELSE ares.accessed
            IN  /\ contended => NeedLock(pfn)
                /\ damon_pa_cache' =
                      IF reuse THEN damon_pa_cache
                      ELSE CheckStores(damon_pa_cache, damon_pa_cache_gen,
                                       pfn, res)
                /\ two' = [two EXCEPT
                      !.regs[c][i].nr_accesses = CountAccess(@, accessed),
                      !.pc[c] = IF i = Len(two.regs[c]) THEN "idle"
                                ELSE "check",
                      !.idx[c] = i + 1,
                      !.alone[c].cache =
                          IF areuse THEN @
                          ELSE CheckStores(@, a.gen, pfn, ares),
                      !.alone[c].nr[i] = CountAccess(@, aaccessed),
                      !.last = [ctx |-> c, op |-> "check", r |-> i,
                                oracle |-> ~reuse, alone_oracle |-> ~areuse]]
    /\ UNCHANGED <<damon_pa_cache_gen, frames, ctxvars>>

\* the pages the workload touches while the two contexts run
TwoTouched == {1}

\* the workload touches a page that both contexts could see
CtxTouch ==
    /\ \E c \in Contexts : two.pc[c] # "idle"
    /\ \E f \in TwoTouched :
        /\ ~frames[f].young
        /\ frames' = [frames EXCEPT ![f].young = TRUE]
        /\ two' = [two EXCEPT
              !.alone = [c \in Contexts |->
                           [two.alone[c] EXCEPT !.frames[f].young = TRUE]]]
    /\ UNCHANGED <<damon_pa_cache, damon_pa_cache_gen, ctxvars>>

NextTwo ==
    \/ \E c \in Contexts : CtxPrepareBegin(c)
    \/ \E c \in Contexts : CtxPrepareStep(c)
    \/ \E c \in Contexts : CtxCheckBegin(c)
    \/ \E c \in Contexts : CtxCheckStep(c)
    \/ CtxTouch

InitTwo ==
    /\ InitBase("empty")
    /\ two = TwoOf(TwoRegs, frames)

SpecTwo == InitTwo /\ [][NextTwo]_vars

----------------------------------------------------------------------------
Next == PrepareBegin \/ PrepareStep \/ CheckBegin \/ CheckStep \/ Touch
        \/ ApplyBegin \/ ScanStep \/ ScanEnd \/ SchemeScore

Spec == Init /\ [][Next]_vars

\* a round in which more distinct frames hash to one bucket than the probe
\* window holds
InitCollide == InitOf("collide")
SpecCollide == InitCollide /\ [][Next]_vars

\* regions sampling frames of one transparent huge page
InitHuge == InitOf("huge")
SpecHuge == InitHuge /\ [][Next]_vars

\* schemes applied to a region of three pages and to a region that ends
\* within one page of the top of the address range
InitScan == InitOf("scan")
SpecScan == InitScan /\ [][Next]_vars

----------------------------------------------------------------------------
(* Properties *)

\* the frame numbers the layouts can sample, and frame 0 of the zeroed table
ModelPfns == (0 .. 4) \cup {234, 611, 844, 988} \cup (ThpBase .. ThpBase + 2)

\* the slots holding a live entry of pfn
LiveSlots(pfn) ==
    {i \in DOMAIN damon_pa_cache :
        /\ damon_pa_cache_gen # 0
        /\ damon_pa_cache[i].gen = damon_pa_cache_gen
        /\ damon_pa_cache[i].pfn = pfn}

\* C1: in every reachable state the table holds at most one live entry
\* (entry.gen = current generation) per frame number.
C1_OneLiveEntryPerFrame ==
    \A pfn \in ModelPfns : Cardinality(LiveSlots(pfn)) <= 1

\* C2: once a round has begun, lookup(F) finds an entry only if its slot was
\* claimed and stamped in this round: no entry written in an earlier round is
\* returned as live, however many rounds have elapsed.
C2_NoEarlierRoundEntryLive ==
    round > 0 =>
        \A pfn \in ModelPfns :
            LET e == damon_pa_cache_lookup(damon_pa_cache,
                                           damon_pa_cache_gen, pfn)
            IN  e # NoSlot => e \in stamped

\* C3: the nr_accesses of every region equals the one of the reference run
\* without a cache (every prepare marks cold, every check runs the hot test).
C3_CacheTransparent ==
    \A i \in 1 .. Len(regions) : regions[i].nr_accesses = ref_nr[i]

\* the step taken is __damon_pa_prepare_access_check on regions[idx]
IsPrepareStep == pc = "prepare" /\ idx' = idx + 1

\* the step taken is __damon_pa_check_access on regions[idx]
IsCheckStep == pc = "check" /\ idx' = idx + 1

\* the frame the check step on regions[idx] looks at
SamplePfn == PHYS_PFN(regions[idx].sampling_addr)

\* C4: within one round damon_pa_mkold is invoked at most once per frame,
\* however many regions sample that frame.
C4_MkoldAtMostOncePerFrame ==
    \A f \in ModelPfns : Count(mkold_calls, f) <= 1

\* C4 (amended): within one round damon_pa_mkold is invoked for a frame at
\* most once, plus once for every time the frame's live entry was overwritten
\* by a claim for another frame (no stale slot in the probe window).
C4_MkoldOnceUnlessOverwritten ==
    \A f \in ModelPfns : Count(mkold_calls, f) <= 1 + Count(evicted, f)

\* frame 1 was marked cold, its entry overwritten by the fifth colliding
\* frame, marked cold again by the sixth region and skipped by the seventh
C4_Witness ==
    /\ pc = "prepared"
    /\ Count(mkold_calls, 1) = 2
    /\ Count(evicted, 1) = 1
    /\ last.r = 7 /\ ~last.oracle

\* C5: a check step that finds a live entry with page_sz # 0 for its sample
\* frame in the table reuses it: damon_pa_young is not called for that frame.
C5_ResolvedEntryIsReused ==
    [][(IsCheckStep /\ \E i \in LiveSlots(SamplePfn) :
                          damon_pa_cache[i].page_sz # 0)
         => (last'.hit /\ young_calls' = young_calls)]_vars

\* the frames of the huge unit of size page_sz that holds pfn
SameHugeUnit(pfn, other, page_sz) ==
    pfn \div (page_sz \div PAGE_SIZE) = other \div (page_sz \div PAGE_SIZE)

\* C6: once the hot test of this pass reported a huge size S for a frame, a
\* later check step whose sample frame lies in the same S-aligned unit reuses
\* the cached result: damon_pa_young is not called again.
C6_HugeUnitIsReused ==
    [][(IsCheckStep /\ \E i \in stamped :
            /\ i \in LiveSlots(damon_pa_cache[i].pfn)
            /\ damon_pa_cache[i].page_sz > PAGE_SIZE
            /\ SameHugeUnit(SamplePfn, damon_pa_cache[i].pfn,
                            damon_pa_cache[i].page_sz))
         => (last'.hit /\ young_calls' = young_calls)]_vars

\* C7: nr_accesses never decreases; only the check step of a region changes
\* it, by +1 exactly when the sample was judged accessed and by 0 otherwise;
\* prepare, apply_scheme and score leave it unchanged.
C7_NrAccessesOnlyIncrementedByCheck ==
    [][/\ Len(regions') = Len(regions)
       /\ \A i \in 1 .. Len(regions) :
            /\ regions'[i].nr_accesses \in
                  {regions[i].nr_accesses, regions[i].nr_accesses + 1}
            /\ regions'[i].nr_accesses # regions[i].nr_accesses
                  => (IsCheckStep /\ i = idx /\ last'.accessed)
       /\ (IsCheckStep /\ last'.accessed)
            => regions'[idx].nr_accesses = regions[idx].nr_accesses + 1]_vars

\* a check step left a counted region at 1 behind a region already at 2
C7_Witness ==
    /\ last.op = "checked" /\ ~last.accessed
    /\ Len(regions) = 2
    /\ regions[1].nr_accesses = 2
    /\ regions[2].nr_accesses = 1

\* the largest nr_accesses of the regions, 0 without regions
MaxNrAccesses ==
    IF Len(regions) = 0 THEN 0
    ELSE CHOOSE m \in {regions[i].nr_accesses : i \in 1 .. Len(regions)} :
            \A i \in 1 .. Len(regions) : regions[i].nr_accesses <= m

\* C8: the value damon_pa_check_accesses returns is the maximum nr_accesses
\* of the regions it visited, and 0 when there are none.
C8_ReturnsMaxNrAccesses ==
    last.op = "checked" => last.val = MaxNrAccesses

\* the pass returned 2, the count of the first region, the last one being at 1
C8_Witness ==
    /\ last.op = "checked" /\ last.val = 2
    /\ Len(regions) = 2
    /\ regions[1].nr_accesses = 2
    /\ regions[2].nr_accesses = 1

C10_MkoldNoOpWhenUnmapped ==
    [][(IsPrepareStep /\ FrameKind(last'.pfn) \in {"none", "unmapped"})
         => frames' = frames]_vars

\* C10 (amended): the mark-cold of a prepare step changes nothing for a frame
\* that is not found; for a frame that is found but not mapped or not
\* reverse-mappable it sets the page's idle flag and changes nothing else.
C10_MkoldSetsIdleWhenUnmapped ==
    [][IsPrepareStep =>
         /\ FrameKind(last'.pfn) = "none" => frames' = frames
         /\ (FrameKind(last'.pfn) = "unmapped" /\ last'.oracle) =>
               frames' = [frames EXCEPT ![last'.pfn].idle = TRUE]
         /\ (FrameKind(last'.pfn) = "unmapped" /\ ~last'.oracle) =>
               frames' = frames]_vars

\* the unmapped frame 3 was marked cold after the workload had cleared its
\* idle flag in an earlier round
C10_Witness ==
    /\ last.op = "prepare" /\ last.pfn = 3 /\ last.oracle
    /\ round >= 2
    /\ frames[3].idle

----------------------------------------------------------------------------
\* C11: when the hot test is called and cannot resolve the frame (the page is
\* not found, or the try-lock of the page fails), it reports not accessed
\* with the base page size in the same step, nr_accesses of the region is
\* not incremented and the pass moves on to the next region.
C11_UnresolvedFrameNotCounted ==
    [][(/\ IsCheckStep
        /\ last'.oracle
        /\ (FrameKind(SamplePfn) = "none" \/ last'.contended))
       => (/\ ~last'.accessed
           /\ last'.page_sz = PAGE_SIZE
           /\ regions'[idx].nr_accesses = regions[idx].nr_accesses
           /\ pc' = IF idx = Len(regions) THEN "idle" ELSE "check")]_vars

\* a hot test gave up on a contended page whose accessed bit was set
C11_Witness ==
    /\ last.op \in {"check", "checked"}
    /\ last.contended
    /\ ~last.accessed
    /\ frames[FrameKey(last.pfn)].young
    /\ regions[last.r].nr_accesses = 0

----------------------------------------------------------------------------
\* C12: damon_pa_apply_scheme called with an action other than pageout
\* returns 0 at once and does no work: no frame lookup, no clearing of the
\* reference signals, no isolation and no reclaim call.
C12_OtherActionsDoNothing ==
    [][(/\ pc = "idle"
        /\ last'.op \in {"apply", "applying"}
        /\ last' # last
        /\ last'.action # "DAMOS_PAGEOUT")
       => (/\ last'.op = "apply"
           /\ last'.val = 0
           /\ pc' = "idle"
           /\ scan'.gets = scan.gets
           /\ scan'.clears = scan.clears
           /\ scan'.isolates = scan.isolates
           /\ scan'.reclaims = scan.reclaims
           /\ scan'.page_list = scan.page_list)]_vars

\* a call with another action returned 0 after an earlier pageout call, whose
\* record of work it left as it was
C12_Witness ==
    /\ last.op = "apply"
    /\ last.action = "DAMOS_STAT"
    /\ last.val = 0
    /\ scan.reclaims = 1
    /\ scan.gets > 0

\* C13: a pageout call visits every base page of [start, end) once and no
\* other page; frames that are not found or whose isolation fails are
\* skipped; the list handed to reclaim_pages holds exactly the frames of the
\* region that were found, isolated and are evictable; reclaim_pages is
\* called once per call and the call returns its count times PAGE_SIZE.
C13_ScanBatchesRegionFrames ==
    scan.r # 0 =>
      LET pfns == ScanPfns(regions[scan.r])
          batch == {f \in pfns : /\ FrameKind(f) # "none"
                                  /\ f \notin scan.failed
                                  /\ ~PageUnevictable(f)}
      IN  /\ \A f \in DOMAIN scan.visits : f \in pfns /\ scan.visits[f] = 1
          /\ scan.page_list \subseteq batch
          /\ scan.reclaims <= 1
          /\ (pc = "scan") => (scan.reclaims = 0)
          /\ (pc # "scan") =>
                /\ DOMAIN scan.visits = pfns
                /\ scan.page_list = batch
                /\ scan.reclaims = 1
          /\ (last.op = "apply" /\ last.action = "DAMOS_PAGEOUT") =>
                last.val = scan.reclaimed * PAGE_SIZE

----------------------------------------------------------------------------
\* C14: during the scan of a pageout call a yield is executed every fixed
\* number of frames: no more than YieldPeriod frame visits in a row happen
\* without a yield, however large the region is.
C14_YieldsEveryFewFrames == scan.since_yield <= YieldPeriod

----------------------------------------------------------------------------
\* C16: damon_pa_scheme_score returns the value of the external pageout
\* score for the pageout action and the maximum score for every other
\* action, and changes neither a region nor the cache.
C16_ScoreDelegatesOrMax ==
    [][(last'.op = "score" /\ last' # last)
       => (/\ last'.val = IF last'.action = "DAMOS_PAGEOUT" THEN last'.ext
                           ELSE DAMOS_MAX_SCORE
           /\ regions' = regions
           /\ damon_pa_cache' = damon_pa_cache
           /\ damon_pa_cache_gen' = damon_pa_cache_gen)]_vars

\* another action than pageout got the maximum score although the pageout
\* score would have been lower, with entries in the cache
C16_Witness ==
    /\ last.op = "score"
    /\ last.action = "DAMOS_STAT"
    /\ last.ext < DAMOS_MAX_SCORE
    /\ last.val = DAMOS_MAX_SCORE
    /\ damon_pa_cache # << >>

----------------------------------------------------------------------------
\* the first and the fifth of the frames of layout collide, which share a
\* bucket
CollideFirst == PHYS_PFN(LayoutOf("collide").regs[1].start)
CollideFifth == PHYS_PFN(LayoutOf("collide").regs[5].start)

\* C17: with a probe window of 4, when 5 distinct frames of one bucket are
\* claimed in one round, the 5th claim overwrites the slot that holds the
\* first frame; the next lookup of the first frame misses and leads to one
\* more call of the oracle, and the lookup after that hits.
C17_FifthClaimEvictsFirst ==
    (lay = "collide" /\ last.op = "prepare") =>
      /\ (last.r = 5) =>
            /\ CacheEnt(damon_pa_cache, CacheSlot(CollideFirst, 0)).pfn
                  = CollideFifth
            /\ damon_pa_cache_lookup(damon_pa_cache, damon_pa_cache_gen,
                                     CollideFirst) = NoSlot
            /\ Count(mkold_calls, CollideFirst) = 1
      /\ (last.r = 6) =>
            /\ last.pfn = CollideFirst
            /\ last.oracle
            /\ Count(mkold_calls, CollideFirst) = 2
      /\ (last.r = 7) =>
            /\ last.pfn = CollideFirst
            /\ ~last.oracle
            /\ Count(mkold_calls, CollideFirst) = 2

\* the lookup after the one more oracle call hit
C17_Witness ==
    /\ lay = "collide"
    /\ last.op = "prepare"
    /\ last.r = 7
    /\ ~last.oracle
    /\ Count(mkold_calls, CollideFirst) = 2
    /\ Count(evicted, CollideFirst) = 1

----------------------------------------------------------------------------
\* C18: the generation advances exactly once per call of
\* damon_pa_prepare_access_checks, before a region is visited, and in no
\* other operation; after a round began it is never 0, a wrap gives 1; the
\* begin of a round changes no cache entry.
C18_GenerationAdvancesOncePerRound ==
    [][/\ (damon_pa_cache_gen' # damon_pa_cache_gen) =>
             /\ pc = "idle" /\ pc' \in {"prepare", "prepared"}
             /\ idx' = 1
             /\ regions' = regions
             /\ damon_pa_cache' = damon_pa_cache
             /\ damon_pa_cache_gen' = IF damon_pa_cache_gen = GenMod - 1
                                      THEN 1 ELSE damon_pa_cache_gen + 1
       /\ (pc = "idle" /\ pc' \in {"prepare", "prepared"}) =>
             damon_pa_cache_gen' # damon_pa_cache_gen
       /\ (round' > 0) => (damon_pa_cache_gen' # 0)]_vars

\* the counter wrapped: more rounds began than the counter's value, and
\* entries of earlier rounds are in the cache
C18_Witness ==
    /\ round = GenMod
    /\ damon_pa_cache_gen = 1
    /\ damon_pa_cache # << >>

----------------------------------------------------------------------------
\* C19: every reference taken by damon_get_page is released on every path
\* of damon_pa_mkold, damon_pa_young and damon_pa_apply_scheme, also on the
\* path of a page that was isolated, found unevictable and put back: when
\* an operation has returned, no lookup reference is held.
C19_NoLookupReferenceHeld ==
    /\ (last.op \in {"prepare", "check", "checked"}) => (last.held = 0)
    /\ (pc # "scan") => (scan.held = 0)

----------------------------------------------------------------------------
\* the number of base pages of a region, which is the number of iterations
\* its scan needs
ScanLen(r) == (r.end - r.start + PAGE_SIZE - 1) \div PAGE_SIZE

\* C20: every operation terminates: the two passes visit each region once,
\* and the scan of a pageout call is over after one iteration per base page
\* of [start, end), also for a region that ends within one page of the top
\* of the address range.
C20_OperationsTerminate ==
    /\ (pc \in {"prepare", "check"}) => (idx <= Len(regions))
    /\ (pc = "scan") =>
          /\ scan.steps <= ScanLen(regions[scan.r])
          /\ (scan.steps = ScanLen(regions[scan.r]))
                => (scan.addr >= regions[scan.r].end)

----------------------------------------------------------------------------
\* C15: two monitoring contexts whose rounds interleave do not share cache
\* state: in every step of a context the oracle is called or spared as it
\* would be had the context cache and generation to itself, and every
\* nr_accesses is what it would be then.
C15_ContextsIndependent ==
    /\ two.last.oracle = two.last.alone_oracle
    /\ \A c \in Contexts : \A i \in 1 .. Len(two.regs[c]) :
          two.regs[c][i].nr_accesses = two.alone[c].nr[i]

====
